---- MODULE Spec2Model ----
(***************************************************************************)
(* Case / follow-up data model of the service dashboard (src/app.py).      *)
(* The four tables, the storage helpers run_query / run_transaction with   *)
(* their failure branches, the page handlers that write (intake form,      *)
(* Update Status, Delete Case Permanently, Submit Activity Log) and the    *)
(* dashboard queries.                                                      *)
(***************************************************************************)
EXTENDS Integers, Sequences, FiniteSets, TLC

VARIABLES
    Regions,          \* table Regions: rows [region_id, region_name]
    Staff,            \* table Staff: rows [staff_id, name]
    ServiceRequests,  \* table ServiceRequests
    FollowUps,        \* table FollowUps
    nextRequestId,    \* serial of ServiceRequests.request_id
    nextFollowupId,   \* serial of FollowUps.followup_id
    runs,             \* script runs so far (one per interaction)
    last,             \* the last script run: the button pressed, the case and value selected
    msgs,             \* what that run put on the page: st.error/success/warning/info, or
                      \* the uncaught exception that ended it
    sessions,         \* per user: where that user's script run stands between its
                      \* statements (each statement is its own connection and commit)
    fkEnforced        \* whether the schema declares FollowUps.request_id a foreign key

vars == <<Regions, Staff, ServiceRequests, FollowUps, nextRequestId,
          nextFollowupId, runs, last, msgs, sessions, fkEnforced>>

db == <<Regions, Staff, ServiceRequests, FollowUps>>

\* ------------------------------------------------------------------ bounds
\* the number of interactions followed
MaxRuns == 6
\* the number of script runs followed when two sessions interleave
MaxRaceRuns == 4

\* ------------------------------------------------------- program constants
StaleWindow == 7

None == "None"

\* the options of the widgets (a few of each)
RequestTypes == {"Food Pantry"}
Priorities == {"Critical"}
Statuses == {"Open", "In Progress", "Closed"}
\* the statuses picked here in the "Update Status" selectbox
StatusChoices == {"Open", "Closed"}
Outcomes == {"Pending", "Completed"}
Descriptions == {"family of 4"}
Notes == {"Client was contacted via phone"}
\* CURRENT_DATE and datetime.now(), as a day number
today == StaleWindow + 1
\* st.date_input: any date, backdated or future; the offsets from today picked here
DateOffsets == {0 - (StaleWindow + 1), 1}

RegionTables ==
    { {},
      {[region_id |-> 1, region_name |-> "East Lee County"],
       [region_id |-> 2, region_name |-> "West Lee County"]} }
StaffTables == { {[staff_id |-> 1, name |-> "Ana"]} }

\* the browser sessions open at the same time
Users == {"u1", "u2"}
\* a session between two script runs
Idle == [pc |-> "idle", op |-> "none", id |-> 0, sid |-> 0]

\* --------------------------------------------------------- storage helpers
\* run_query: the rows, or an empty DataFrame when the read raises
run_query(ok, rows) == IF ok THEN rows ELSE {}

\* a scalar query followed by .iloc[0,0]: IndexError on the empty DataFrame
ScalarFails(ok) == ~ok

\* get_regions with a fallback entry instead of {} when the frame is empty
get_regions_fallback(ok) ==
    LET df == run_query(ok, Regions)
    IN  IF df = {} THEN [n \in {"Unassigned"} |-> 0]
        ELSE [n \in {r.region_name : r \in df} |->
                (CHOOSE r \in df : r.region_name = n).region_id]

\* get_regions: dict(zip(region_name, region_id)), {} when the frame is empty
get_regions(ok) ==
    LET df == run_query(ok, Regions)
    IN  [n \in {r.region_name : r \in df} |->
            (CHOOSE r \in df : r.region_name = n).region_id]

\* get_staff: dict(zip(name, staff_id))
get_staff(ok) ==
    LET df == run_query(ok, Staff)
    IN  [n \in {s.name : s \in df} |-> (CHOOSE s \in df : s.name = n).staff_id]

\* the dropdown label "#id | type [status]"
Label(row) == <<row.request_id, row.request_type, row.status>>

\* get_active_requests: label -> request_id
get_active_requests(ok) ==
    LET df == run_query(ok, ServiceRequests)
    IN  [l \in {Label(r) : r \in df} |-> (CHOOSE r \in df : Label(r) = l).request_id]

\* st.selectbox: one of the options, None when there are none
Selectbox(options) == IF options = {} THEN {None} ELSE options

\* ------------------------------------------------------------- statements
\* the INSERT with the status taken from the priority instead of the literal 'Open'
InsertRequest_byPriority(S, id, r, t, p, d) ==
    S \cup {[request_id |-> id, region_id |-> r, request_type |-> t,
             status |-> IF p = "Critical" THEN "In Progress" ELSE "Open",
             priority |-> p, description |-> d]}

\* INSERT INTO ServiceRequests (...) VALUES (:r, :t, 'Open', :p, :d)
InsertRequest(S, id, r, t, p, d) ==
    S \cup {[request_id |-> id, region_id |-> r, request_type |-> t,
             status |-> "Open", priority |-> p, description |-> d]}

\* the UPDATE with a transition rule: a Closed case is not reopened
UpdateStatusStmt_guarded(S, s, id) ==
    {IF r.request_id = id /\ r.status # "Closed" THEN [r EXCEPT !.status = s] ELSE r :
        r \in S}

\* UPDATE ServiceRequests SET status = :s WHERE request_id = :id
UpdateStatusStmt(S, s, id) ==
    {IF r.request_id = id THEN [r EXCEPT !.status = s] ELSE r : r \in S}

\* the DELETE without its WHERE clause
DeleteFollowUpsStmt_all(F, id) == {}

\* DELETE FROM FollowUps WHERE request_id = :id
DeleteFollowUpsStmt(F, id) == {f \in F : f.request_id # id}

\* DELETE FROM ServiceRequests WHERE request_id = :id
DeleteRequestStmt(S, id) == {r \in S : r.request_id # id}

\* INSERT INTO FollowUps (...) VALUES (:r, :s, :n, :c, :d)
InsertFollowUp(F, id, r, s, n, c, d) ==
    F \cup {[followup_id |-> id, request_id |-> r, staff_id |-> s, notes |-> n,
             completion_status |-> c, followup_date |-> d]}

\* one script run: the button pressed, the request id it acted on (0: none), the
\* value of the widget that goes with the button, whether a read or write raised
Run(op, id, arg, failed) == [op |-> op, id |-> id, arg |-> arg, failed |-> failed]

\* an uncaught exception ends the script run; Streamlit prints it on the page
IndexError == "IndexError"
KeyError == "KeyError"

\* run_transaction: st.error on the except branch
TxMsgs(oks) == IF \E i \in DOMAIN oks : ~oks[i] THEN {"Transaction Error"} ELSE {}

\* ------------------------------------------------------ dashboard queries
\* SELECT COUNT(*) FROM ServiceRequests
total_vol == Cardinality(ServiceRequests)

\* ... WHERE status != 'Closed' AND priority = 'Critical'
crit_open ==
    Cardinality({r \in ServiceRequests : r.status # "Closed" /\ r.priority = "Critical"})

\* SELECT request_id FROM FollowUps WHERE followup_date >= CURRENT_DATE - 7
RecentFollowUpIds ==
    {f.request_id : f \in {g \in FollowUps : g.followup_date >= today - StaleWindow}}

\* ... WHERE status != 'Closed' AND request_id NOT IN (...)
stale_cases ==
    Cardinality({r \in ServiceRequests :
                    r.status # "Closed" /\ r.request_id \notin RecentFollowUpIds})

\* truncation instead of rounding
Round1_trunc(x1000, n) == x1000 \div n

\* ROUND(x / n, 1) of a non-negative numeric, in tenths: half rounds up
Round1(x1000, n) == (2 * x1000 + n) \div (2 * n)

\* SQL NULL / NaN in the frame: a value no rate takes
NULL == 0 - 1

\* ROUND(100.0 * SUM(CASE ...) / NULLIF(COUNT(*), 0), 1), in tenths of a percent
success_rate ==
    LET n == Cardinality(FollowUps)
        c == Cardinality({f \in FollowUps : f.completion_status = "Completed"})
    IN  IF n = 0 THEN NULL ELSE Round1(1000 * c, n)

\* f"{0 if pd.isna(success_rate) else success_rate}%", in tenths of a percent
ResolutionRateShown == IF success_rate = NULL THEN 0 ELSE success_rate

\* ServiceRequests s JOIN Regions r ON s.region_id = r.region_id
GeoJoin ==
    {<<s, r>> \in ServiceRequests \X Regions : s.region_id = r.region_id}

\* the chart query written from Regions with a LEFT JOIN and COUNT(*): a region
\* without requests still yields one joined row
df_geo_leftjoin ==
    [n \in {r.region_name : r \in Regions} |->
        LET k == Cardinality({p \in GeoJoin : p[2].region_name = n})
        IN  IF k = 0 THEN 1 ELSE k]

\* GROUP BY r.region_name, COUNT(s.request_id): region_name -> "Volume"
df_geo ==
    [n \in {p[2].region_name : p \in GeoJoin} |->
        Cardinality({p \in GeoJoin : p[2].region_name = n})]

RECURSIVE SumOver(_, _)
SumOver(f, D) ==
    IF D = {} THEN 0
    ELSE LET d == CHOOSE x \in D : TRUE IN f[d] + SumOver(f, D \ {d})

\* ------------------------------------------------------------------- Init
Init ==
    /\ Regions \in RegionTables
    /\ Staff \in StaffTables
    /\ ServiceRequests = {}
    /\ FollowUps = {}
    /\ nextRequestId = 1
    /\ nextFollowupId = 1
    /\ last = Run("start", 0, None, FALSE)
    /\ msgs = {}
    /\ runs = 0
    /\ sessions = [u \in Users |-> Idle]
    /\ fkEnforced = FALSE

\* ---------------------------------------------------------------- actions
\* every interaction reruns the page script once; in Spec a run is one step, no
\* other session acts between its statements
OneRun ==
    /\ runs < MaxRuns
    /\ runs' = runs + 1
    /\ UNCHANGED <<sessions, fkEnforced>>

\* intake_form submitted ("Create Service Request")
IntakeSubmit ==
    /\ OneRun
    /\ \E okq \in BOOLEAN :
        LET regions_map == get_regions(okq) IN
        \E new_region_name \in Selectbox(DOMAIN regions_map) :
            IF new_region_name = None
            THEN /\ msgs' = {"Please configure Regions first."}
                 /\ last' = Run("create", 0, None, ~okq)
                 /\ UNCHANGED <<ServiceRequests, nextRequestId>>
            ELSE \E oktx \in BOOLEAN, new_type \in RequestTypes,
                    new_prio \in Priorities, new_desc \in Descriptions :
                 LET reg_id == regions_map[new_region_name]
                     success == oktx
                 IN  /\ ServiceRequests' =
                            IF success
                            THEN InsertRequest(ServiceRequests, nextRequestId, reg_id,
                                               new_type, new_prio, new_desc)
                            ELSE ServiceRequests
                     /\ nextRequestId' = IF success THEN nextRequestId + 1 ELSE nextRequestId
                     /\ msgs' = TxMsgs(<<success>>) \cup
                                (IF success THEN {"Request Created Successfully!"} ELSE {})
                     /\ last' = Run("create", 0, new_region_name, ~success)
    /\ UNCHANGED <<Regions, Staff, FollowUps, nextFollowupId>>

\* "Update Status" pressed on the manage tab
UpdateStatus ==
    /\ OneRun
    /\ \E okl \in BOOLEAN :
        LET req_map == get_active_requests(okl) IN
        IF DOMAIN req_map = {}
        THEN /\ msgs' = {"No active cases found!"}
             /\ last' = Run("update", 0, None, ~okl)
             /\ UNCHANGED ServiceRequests
        ELSE \E sel_label \in DOMAIN req_map, okc \in BOOLEAN :
            LET sel_id == req_map[sel_label] IN
            IF ScalarFails(okc)
            THEN /\ msgs' = {IndexError}
                 /\ last' = Run("update", 0, None, TRUE)
                 /\ UNCHANGED ServiceRequests
            ELSE \E oktx \in BOOLEAN, new_stat \in StatusChoices :
                 /\ ServiceRequests' =
                        IF oktx THEN UpdateStatusStmt(ServiceRequests, new_stat, sel_id)
                        ELSE ServiceRequests
                 /\ msgs' = TxMsgs(<<oktx>>) \cup {"Status Updated!"}
                 /\ last' = Run("update", sel_id, new_stat, ~oktx)
    /\ UNCHANGED <<Regions, Staff, FollowUps, nextRequestId, nextFollowupId>>

\* "Delete Case Permanently" pressed on the manage tab
DeleteCase ==
    /\ OneRun
    /\ \E okl \in BOOLEAN :
        LET req_map == get_active_requests(okl) IN
        IF DOMAIN req_map = {}
        THEN /\ msgs' = {"No active cases found!"}
             /\ last' = Run("delete", 0, None, ~okl)
             /\ UNCHANGED <<ServiceRequests, FollowUps>>
        ELSE \E sel_label \in DOMAIN req_map, okc \in BOOLEAN :
            LET sel_id == req_map[sel_label] IN
            IF ScalarFails(okc)
            THEN /\ msgs' = {IndexError}
                 /\ last' = Run("delete", 0, None, TRUE)
                 /\ UNCHANGED <<ServiceRequests, FollowUps>>
            ELSE \E okd1 \in BOOLEAN, okd2 \in BOOLEAN :
                 LET ok1 == okd1
                     F1 == IF ok1 THEN DeleteFollowUpsStmt(FollowUps, sel_id) ELSE FollowUps
                     ok2 == okd2
                 IN  /\ FollowUps' = F1
                     /\ ServiceRequests' =
                            IF ok2 THEN DeleteRequestStmt(ServiceRequests, sel_id)
                            ELSE ServiceRequests
                     /\ msgs' = TxMsgs(<<ok1, ok2>>) \cup {"Case Deleted."}
                     /\ last' = Run("delete", sel_id, None, ~(ok1 /\ ok2))
    /\ UNCHANGED <<Regions, Staff, nextRequestId, nextFollowupId>>

\* form log_work submitted ("Submit Activity Log")
LogFollowUp ==
    /\ OneRun
    /\ \E okr \in BOOLEAN, oks \in BOOLEAN :
        LET req_map == get_active_requests(okr)
            staff_map == get_staff(oks)
        IN
        IF DOMAIN req_map = {} \/ DOMAIN staff_map = {}
        THEN /\ msgs' = {"System not fully configured."}
             /\ last' = Run("log", 0, None, ~(okr /\ oks))
             /\ UNCHANGED <<FollowUps, nextFollowupId>>
        ELSE \E req_label \in DOMAIN req_map, staff_label \in DOMAIN staff_map,
                oktx \in BOOLEAN, outcome \in Outcomes, off \in DateOffsets,
                notes \in Notes :
            LET rid == req_map[req_label]
                sid == staff_map[staff_label]
                log_date == today + off
                success == oktx
            IN  /\ FollowUps' =
                        IF success
                        THEN InsertFollowUp(FollowUps, nextFollowupId, rid, sid, notes,
                                            outcome, log_date)
                        ELSE FollowUps
                /\ nextFollowupId' = IF success THEN nextFollowupId + 1 ELSE nextFollowupId
                /\ msgs' = TxMsgs(<<success>>) \cup {"Activity Logged Successfully!"}
                /\ last' = Run("log", 0, None, ~success)
    /\ UNCHANGED <<Regions, Staff, ServiceRequests, nextRequestId>>

\* the Dashboard page rendered: the four scalar queries (any of them raising ends
\* the run at .iloc[0,0]), then the two charts
RenderDashboard ==
    /\ OneRun
    /\ \E okScalars \in BOOLEAN :
        IF ScalarFails(okScalars)
        THEN /\ msgs' = {IndexError}
             /\ last' = Run("dashboard", 0, None, TRUE)
        ELSE \E okGeo \in BOOLEAN, okLoad \in BOOLEAN :
             LET geo == IF okGeo THEN df_geo ELSE <<>> IN
             /\ msgs' = (IF DOMAIN geo = {} THEN {"No data available."} ELSE {})
                        \cup (IF ~okLoad THEN {KeyError} ELSE {})
             /\ last' = Run("dashboard", 0, None, ~(okGeo /\ okLoad))
    /\ UNCHANGED <<Regions, Staff, ServiceRequests, FollowUps, nextRequestId,
                   nextFollowupId>>

Next ==
    \/ IntakeSubmit
    \/ UpdateStatus
    \/ DeleteCase
    \/ LogFollowUp
    \/ RenderDashboard

Spec == Init /\ [][Next]_vars

\* ------------------------------------------------- two concurrent sessions
\* Two users on the live tables. A script run is not one step here: every
\* run_query / run_transaction call opens its own connection and commits on its
\* own, so the other session's statements can fall between any two of them.

\* the schema (not part of the page script): with the foreign key declared, the
\* storage rejects a FollowUp whose request is missing and the DELETE of a
\* request that still has FollowUps
InsertAllowed(rid) ==
    fkEnforced => \E r \in ServiceRequests : r.request_id = rid
DeleteAllowed(rid) ==
    fkEnforced => \A f \in FollowUps : f.request_id # rid

\* run_query("SELECT * FROM ServiceRequests WHERE request_id = ...").iloc[0]:
\* IndexError when the read raised or the row is gone
DetailFails(ok, id) ==
    run_query(ok, {r \in ServiceRequests : r.request_id = id}) = {}

InitRace ==
    /\ Regions = CHOOSE T \in RegionTables : T # {}
    /\ Staff \in StaffTables
    /\ ServiceRequests =
          InsertRequest(InsertRequest({}, 1, 1, "Food Pantry", "Critical", "family of 4"),
                        2, 2, "Food Pantry", "Critical", "family of 4")
    /\ FollowUps = {}
    /\ nextRequestId = 3
    /\ nextFollowupId = 1
    /\ last = Run("start", 0, None, FALSE)
    /\ msgs = {}
    /\ runs = 0
    /\ sessions = [u \in Users |-> Idle]
    /\ fkEnforced \in BOOLEAN

\* the manage tab starts a run with "Update Status" or "Delete Case Permanently"
\* pressed: get_active_requests() and the selectbox
ManageRead(u) ==
    /\ sessions[u].pc = "idle"
    /\ runs < MaxRaceRuns
    /\ runs' = runs + 1
    /\ \E op \in {"update", "delete"}, okl \in BOOLEAN :
        LET req_map == get_active_requests(okl) IN
        IF DOMAIN req_map = {}
        THEN /\ msgs' = {"No active cases found!"}
             /\ last' = Run(op, 0, None, ~okl)
             /\ UNCHANGED sessions
        ELSE \E sel_label \in DOMAIN req_map :
             /\ sessions' = [sessions EXCEPT ![u] =
                                [pc |-> "detail", op |-> op, id |-> req_map[sel_label],
                                 sid |-> 0]]
             /\ msgs' = {}
             /\ last' = Run(op, 0, None, FALSE)
    /\ UNCHANGED <<db, nextRequestId, nextFollowupId, fkEnforced>>

\* curr = run_query(...).iloc[0] for the selected case
ManageDetail(u) ==
    /\ sessions[u].pc = "detail"
    /\ \E okc \in BOOLEAN :
        IF DetailFails(okc, sessions[u].id)
        THEN /\ msgs' = {IndexError}
             /\ last' = Run(sessions[u].op, 0, None, TRUE)
             /\ sessions' = [sessions EXCEPT ![u] = Idle]
        ELSE /\ msgs' = {}
             /\ last' = Run(sessions[u].op, 0, None, FALSE)
             /\ sessions' = [sessions EXCEPT ![u].pc = "submit"]
    /\ UNCHANGED <<db, nextRequestId, nextFollowupId, runs, fkEnforced>>

\* the UPDATE of "Update Status"
RaceUpdate(u) ==
    /\ sessions[u].pc = "submit"
    /\ sessions[u].op = "update"
    /\ \E oktx \in BOOLEAN, new_stat \in StatusChoices :
        /\ ServiceRequests' =
              IF oktx THEN UpdateStatusStmt(ServiceRequests, new_stat, sessions[u].id)
              ELSE ServiceRequests
        /\ msgs' = TxMsgs(<<oktx>>) \cup {"Status Updated!"}
        /\ last' = Run("update", sessions[u].id, new_stat, ~oktx)
    /\ sessions' = [sessions EXCEPT ![u] = Idle]
    /\ UNCHANGED <<Regions, Staff, FollowUps, nextRequestId, nextFollowupId, runs,
                   fkEnforced>>

\* the first DELETE of "Delete Case Permanently": the FollowUps of the case
RaceDeleteFollowUps(u) ==
    /\ sessions[u].pc = "submit"
    /\ sessions[u].op = "delete"
    /\ \E okd1 \in BOOLEAN :
        /\ FollowUps' =
              IF okd1 THEN DeleteFollowUpsStmt(FollowUps, sessions[u].id) ELSE FollowUps
        /\ msgs' = TxMsgs(<<okd1>>)
        /\ last' = Run("delete", 0, None, ~okd1)
    /\ sessions' = [sessions EXCEPT ![u].pc = "delete2"]
    /\ UNCHANGED <<Regions, Staff, ServiceRequests, nextRequestId, nextFollowupId, runs,
                   fkEnforced>>

\* the second DELETE: the case itself, then st.warning("Case Deleted.")
RaceDeleteRequest(u) ==
    /\ sessions[u].pc = "delete2"
    /\ \E okd2 \in BOOLEAN :
        LET ok2 == okd2 /\ DeleteAllowed(sessions[u].id) IN
        /\ ServiceRequests' =
              IF ok2 THEN DeleteRequestStmt(ServiceRequests, sessions[u].id)
              ELSE ServiceRequests
        /\ msgs' = TxMsgs(<<ok2>>) \cup {"Case Deleted."}
        /\ last' = Run("delete", sessions[u].id, None, ~ok2)
    /\ sessions' = [sessions EXCEPT ![u] = Idle]
    /\ UNCHANGED <<Regions, Staff, FollowUps, nextRequestId, nextFollowupId, runs,
                   fkEnforced>>

\* the Staff Portal starts a run with "Submit Activity Log" pressed:
\* get_active_requests(), get_staff() and the selectboxes
LogRead(u) ==
    /\ sessions[u].pc = "idle"
    /\ runs < MaxRaceRuns
    /\ runs' = runs + 1
    /\ \E okr \in BOOLEAN, oks \in BOOLEAN :
        LET req_map == get_active_requests(okr)
            staff_map == get_staff(oks)
        IN
        IF DOMAIN req_map = {} \/ DOMAIN staff_map = {}
        THEN /\ msgs' = {"System not fully configured."}
             /\ last' = Run("log", 0, None, ~(okr /\ oks))
             /\ UNCHANGED sessions
        ELSE \E req_label \in DOMAIN req_map, staff_label \in DOMAIN staff_map :
             /\ sessions' = [sessions EXCEPT ![u] =
                                [pc |-> "submit", op |-> "log", id |-> req_map[req_label],
                                 sid |-> staff_map[staff_label]]]
             /\ msgs' = {}
             /\ last' = Run("log", 0, None, FALSE)
    /\ UNCHANGED <<db, nextRequestId, nextFollowupId, fkEnforced>>

\* the INSERT of "Submit Activity Log", for the id taken from the list read above
RaceLog(u) ==
    /\ sessions[u].pc = "submit"
    /\ sessions[u].op = "log"
    /\ \E oktx \in BOOLEAN, outcome \in Outcomes, off \in DateOffsets, notes \in Notes :
        LET rid == sessions[u].id
            sid == sessions[u].sid
            success == oktx /\ InsertAllowed(rid)
        IN  /\ FollowUps' =
                  IF success
                  THEN InsertFollowUp(FollowUps, nextFollowupId, rid, sid, notes, outcome,
                                      today + off)
                  ELSE FollowUps
            /\ nextFollowupId' = IF success THEN nextFollowupId + 1 ELSE nextFollowupId
            /\ msgs' = TxMsgs(<<success>>) \cup {"Activity Logged Successfully!"}
            /\ last' = Run("log", rid, None, ~success)
    /\ sessions' = [sessions EXCEPT ![u] = Idle]
    /\ UNCHANGED <<Regions, Staff, ServiceRequests, nextRequestId, runs, fkEnforced>>

NextRace ==
    \E u \in Users :
        \/ ManageRead(u)
        \/ ManageDetail(u)
        \/ RaceUpdate(u)
        \/ RaceDeleteFollowUps(u)
        \/ RaceDeleteRequest(u)
        \/ LogRead(u)
        \/ RaceLog(u)

SpecRace == InitRace /\ [][NextRace]_vars

\* ----------------------------------------------------------------- claims
SuccessMsgs ==
    {"Request Created Successfully!", "Status Updated!", "Activity Logged Successfully!"}
ErrorReports ==
    {"Transaction Error", "Please configure Regions first.", IndexError, KeyError}

\* C1: once the "Delete Case Permanently" handler has finished on request id, no
\* FollowUp row references id.
C1_DeleteLeavesNoFollowUps ==
    (last.op = "delete" /\ last.id # 0) =>
        \A f \in FollowUps : f.request_id # last.id

\* C2: deleteRequest(id) is atomic: a run of the delete handler either removes
\* both the FollowUps of id and the ServiceRequest id, or changes neither table.
C2_DeleteAtomic ==
    [][(last'.op = "delete" /\ last'.id # 0) =>
          \/ /\ \A f \in FollowUps' : f.request_id # last'.id
             /\ \A r \in ServiceRequests' : r.request_id # last'.id
          \/ /\ FollowUps' = FollowUps
             /\ ServiceRequests' = ServiceRequests]_vars

\* C3: every ServiceRequest row that the intake form inserts has status "Open"
\* when it is created, whatever region, type, priority and description were given.
C3_CreatedRowsAreOpen ==
    [][last'.op = "create" =>
          \A r \in ServiceRequests' \ ServiceRequests : r.status = "Open"]_vars

C3_Witness ==
    /\ last.op = "create"
    /\ "Request Created Successfully!" \in msgs
    /\ \E r \in ServiceRequests : r.status = "Open" /\ r.region_id = 2
    /\ \E r \in ServiceRequests : r.status = "Closed"

\* C4: an intake submit whose region does not resolve to a row of Regions (also
\* when Regions is empty) shows the validation error and leaves ServiceRequests
\* unchanged.
C4_UnresolvedRegionRejected ==
    [][(last'.op = "create" /\ last'.arg \notin {r.region_name : r \in Regions}) =>
          /\ "Please configure Regions first." \in msgs'
          /\ ServiceRequests' = ServiceRequests]_vars

C4_Witness ==
    /\ last.op = "create"
    /\ last.arg = None
    /\ Regions = {}
    /\ "Please configure Regions first." \in msgs
    /\ ServiceRequests = {}

\* C5: the stale-case count equals the number of requests that are not Closed and
\* have no FollowUp dated from today - 7 up to today.
C5_StaleCountLastSevenDays ==
    stale_cases =
        Cardinality({r \in ServiceRequests :
            /\ r.status # "Closed"
            /\ ~\E f \in FollowUps :
                  /\ f.request_id = r.request_id
                  /\ f.followup_date >= today - StaleWindow
                  /\ f.followup_date <= today})

Completed == Cardinality({f \in FollowUps : f.completion_status = "Completed"})

\* C6 as stated: the resolution rate shown (in tenths of a percent) is 0 without
\* FollowUps and otherwise exactly 100 * Completed / all; a single Completed
\* FollowUp gives 100.0.
C6_ResolutionRateExact ==
    LET n == Cardinality(FollowUps) IN
    /\ n = 0 => ResolutionRateShown = 0
    /\ n > 0 => ResolutionRateShown * n = 1000 * Completed
    /\ (n = 1 /\ Completed = 1) => ResolutionRateShown = 1000

\* C6 amended: the resolution rate shown is 0 without FollowUps and otherwise
\* 100 * Completed / all rounded to one decimal place (within half a tenth of
\* the quotient); a single Completed FollowUp gives 100.0.
C6_ResolutionRateRounded ==
    LET n == Cardinality(FollowUps)
        e == ResolutionRateShown * n - 1000 * Completed
    IN  /\ n = 0 => ResolutionRateShown = 0
        /\ n > 0 => (2 * e <= n /\ 2 * (0 - e) <= n)
        /\ (n = 1 /\ Completed = 1) => ResolutionRateShown = 1000

C6_Witness ==
    /\ Cardinality(FollowUps) = 3
    /\ Completed = 2
    /\ ResolutionRateShown = 667

\* C7: when every ServiceRequest references an existing Region, the per-region
\* counts of the demand chart sum to the total number of ServiceRequests.
C7_DemandSumsToTotal ==
    (\A s \in ServiceRequests : \E r \in Regions : r.region_id = s.region_id) =>
        SumOver(df_geo, DOMAIN df_geo) = total_vol

C7_Witness ==
    /\ total_vol = 2
    /\ Cardinality(DOMAIN df_geo) = 2
    /\ \A s \in ServiceRequests : \E r \in Regions : r.region_id = s.region_id

\* C8: a run in which a read or a write raised shows an error and no success
\* message, and leaves the stored data unchanged.
C8_FailureReported ==
    [][last'.failed =>
          /\ msgs' \cap ErrorReports # {}
          /\ msgs' \cap SuccessMsgs = {}
          /\ db' = db]_vars

\* C9: a FollowUp row disappears or changes only in a delete of its parent
\* ServiceRequest; intake, status update, activity log and the dashboard leave
\* every existing FollowUp row as it is.
C9_FollowUpsOnlyCascadeDeleted ==
    [][\A f \in FollowUps :
          f \notin FollowUps' => (last'.op = "delete" /\ last'.id = f.request_id)]_vars

C9_Witness ==
    /\ last.op = "delete"
    /\ last.id # 0
    /\ ~last.failed
    /\ \A f \in FollowUps : f.request_id # last.id
    /\ Cardinality(FollowUps) = 2

\* C10: from every state, for every existing request and every new status, the
\* status update applied twice gives the tables of applying it once, the target
\* row ends with the new status whatever its status was, and no other row and
\* no other field changes.
C10_UpdateStatusIdempotent ==
    \A r0 \in ServiceRequests, s \in Statuses :
        LET id == r0.request_id
            T1 == UpdateStatusStmt(ServiceRequests, s, id)
            T2 == UpdateStatusStmt(T1, s, id)
        IN  /\ T2 = T1
            /\ [r0 EXCEPT !.status = s] \in T1
            /\ \A r \in T1 : r.request_id = id => r.status = s
            /\ {r \in T1 : r.request_id # id} =
               {r \in ServiceRequests : r.request_id # id}
            /\ Cardinality(T1) = Cardinality(ServiceRequests)

C10_Witness ==
    /\ last.op = "update"
    /\ ~last.failed
    /\ last.arg = "Open"
    /\ \E r \in ServiceRequests : r.request_id = last.id /\ r.status = "Open"
    /\ \E r \in ServiceRequests : r.request_id # last.id /\ r.status = "Closed"
    /\ FollowUps # {}

\* C11: under every interleaving of two users' script runs (each reading the
\* request list, then submitting the activity log, the status update or the
\* two-statement delete), every FollowUp row references a ServiceRequest that
\* exists; a delete racing with an activity log for an id taken from a list
\* read before the delete leaves no FollowUp of the deleted id.
C11_NoOrphanFollowUps ==
    \A f \in FollowUps : \E r \in ServiceRequests : r.request_id = f.request_id
====
